---- MODULE Spec2Model ----
(***************************************************************************)
(* pydantic_restate.config: the option schemas BaseSettings,               *)
(* BaseServiceOptions, ServiceOptions and ServiceHandlerOptions, and the   *)
(* two conversion methods ServiceOptions.new_service and                   *)
(* ServiceHandlerOptions.handler, which package the fields of a validated  *)
(* options object into one call on the restate framework.                  *)
(*                                                                         *)
(* Python values: None is the empty tuple, any other value v is <<v>>.     *)
(* A keyword argument of a call is Absent (not written by the caller) or   *)
(* Given(x) for a Python value x, which may itself be None.                *)
(***************************************************************************)
EXTENDS Integers, Sequences, FiniteSets, TLC

\* ---------------------------------------------------------------- bounds
\* at most MaxGiven keyword arguments besides the name are written in one
\* constructor call
MaxGiven == 2
\* restate.Service objects constructed in one run
MaxServices == 2
\* BaseSettings instances constructed in one run
MaxInstances == 2
\* length of an identity_keys list
MaxKeys == 2

\* ---------------------------------------------------------------- values
None == <<>>
Some(v) == <<v>>
Absent == <<>>
Given(x) == <<x>>

\* timedelta(0), which Python treats as false, and timedelta(seconds=30)
Timedeltas == {Some(n) : n \in {0, 30}}
Seconds(td) == td[1]
Bools == {Some(TRUE), Some(FALSE)}
MetadataValues == {Some("team=payments")}
RetryPolicies == {Some("InvocationRetryPolicy(max_attempts=3)")}
ServiceNames == {Some("greeter")}
HandlerNames == {Some("greet")}
Descriptions == {Some("Greets people")}
IdentityKeys == {"publickeyv1_a", "publickeyv1_b"}

\* what a caller may write for a keyword argument whose values are D
KwArg(D) == {Absent} \cup {Given(x) : x \in D}
\* what a caller may write for name: None is written out too, since the two
\* classes treat it differently
NameArg(D) == {Absent} \cup {Given(x) : x \in D \cup {None}}

\* ------------------------------------------------------ the option schemas
\* the seven fields of BaseServiceOptions, all declared with default=None
BaseServiceOptions == {"metadata", "inactivity_timeout", "abort_timeout",
                       "journal_retention", "idempotency_retention",
                       "ingress_private", "invocation_retry_policy"}
TimedeltaFields == {"inactivity_timeout", "abort_timeout",
                    "journal_retention", "idempotency_retention"}

\* the declared default of field f of class cls: Field(default=None).
\* ServiceOptions.name declares none, and validation rejects the call before
\* a default would be looked up for it
FieldDefault(cls, f) == None

\* pydantic's treatment of one keyword argument of a model constructor
FieldValue(cls, kw, f) == IF kw[f] = Absent THEN FieldDefault(cls, f) ELSE kw[f][1]

\* the keyword arguments a caller wrote
GivenFields(kw) == {f \in DOMAIN kw : kw[f] # Absent}

\* constructor calls ServiceOptions(**kw)
ServiceOptionsKwargs ==
    {kw \in [name : NameArg(ServiceNames),
             description : KwArg(Descriptions),
             metadata : KwArg(MetadataValues),
             inactivity_timeout : KwArg(Timedeltas),
             abort_timeout : KwArg(Timedeltas),
             journal_retention : KwArg(Timedeltas),
             idempotency_retention : KwArg(Timedeltas),
             ingress_private : KwArg(Bools),
             invocation_retry_policy : KwArg(RetryPolicies)] :
        Cardinality(GivenFields(kw) \ {"name"}) <= MaxGiven}

\* constructor calls ServiceHandlerOptions(**kw)
ServiceHandlerOptionsKwargs ==
    {kw \in [name : NameArg(HandlerNames),
             metadata : KwArg(MetadataValues),
             inactivity_timeout : KwArg(Timedeltas),
             abort_timeout : KwArg(Timedeltas),
             journal_retention : KwArg(Timedeltas),
             idempotency_retention : KwArg(Timedeltas),
             ingress_private : KwArg(Bools),
             invocation_retry_policy : KwArg(RetryPolicies)] :
        Cardinality(GivenFields(kw) \ {"name"}) <= MaxGiven}

\* variant of ServiceOptionsValid: name is optional
ServiceOptionsValid_optional(kw) == TRUE

\* name: str = Field(description=...) has no default and does not admit None
ServiceOptionsValid(kw) == kw.name # Absent /\ kw.name[1] # None

\* the validated ServiceOptions object
ServiceOptions(kw) ==
    [cls |-> "ServiceOptions",
     name |-> FieldValue("ServiceOptions", kw, "name"),
     description |-> FieldValue("ServiceOptions", kw, "description"),
     metadata |-> FieldValue("ServiceOptions", kw, "metadata"),
     inactivity_timeout |-> FieldValue("ServiceOptions", kw, "inactivity_timeout"),
     abort_timeout |-> FieldValue("ServiceOptions", kw, "abort_timeout"),
     journal_retention |-> FieldValue("ServiceOptions", kw, "journal_retention"),
     idempotency_retention |-> FieldValue("ServiceOptions", kw, "idempotency_retention"),
     ingress_private |-> FieldValue("ServiceOptions", kw, "ingress_private"),
     invocation_retry_policy |-> FieldValue("ServiceOptions", kw, "invocation_retry_policy")]

\* the validated ServiceHandlerOptions object
ServiceHandlerOptions(kw) ==
    [cls |-> "ServiceHandlerOptions",
     name |-> FieldValue("ServiceHandlerOptions", kw, "name"),
     metadata |-> FieldValue("ServiceHandlerOptions", kw, "metadata"),
     inactivity_timeout |-> FieldValue("ServiceHandlerOptions", kw, "inactivity_timeout"),
     abort_timeout |-> FieldValue("ServiceHandlerOptions", kw, "abort_timeout"),
     journal_retention |-> FieldValue("ServiceHandlerOptions", kw, "journal_retention"),
     idempotency_retention |-> FieldValue("ServiceHandlerOptions", kw, "idempotency_retention"),
     ingress_private |-> FieldValue("ServiceHandlerOptions", kw, "ingress_private"),
     invocation_retry_policy |-> FieldValue("ServiceHandlerOptions", kw, "invocation_retry_policy")]

\* ------------------------------------------------- the restate framework
\* values the framework hands back, and an exception in flight
ServiceObject(id) == [kind |-> "Service", id |-> id]
Decorator(id) == [kind |-> "decorator", id |-> id]
Raised == [kind |-> "raised", id |-> 0]
NoValue == [kind |-> "none", id |-> 0]
\* whether a framework call returns or raises is the framework's choice
Outcomes == {"return", "raise"}

\* the two DefaultSerde() instances built when the def statement of handler
\* is executed, and a serde a caller may pass instead
DefaultInputSerde == [cls |-> "DefaultSerde", id |-> 1]
DefaultOutputSerde == [cls |-> "DefaultSerde", id |-> 2]
CallerSerdes == {[cls |-> "BytesSerde", id |-> 3]}
DefaultAccept == "application/json"
DefaultContentType == "application/json"
CallerMediaTypes == {"text/plain"}

\* Python's binding of a parameter that has a default value
Bind(arg, default) == IF arg = Absent THEN default ELSE arg[1]

\* what a caller may write after the service in o.handler(service, ...)
HandlerCallArgs ==
    [accept : {Absent} \cup {Given(m) : m \in CallerMediaTypes},
     content_type : {Absent} \cup {Given(m) : m \in CallerMediaTypes},
     input_serde : {Absent} \cup {Given(x) : x \in CallerSerdes},
     output_serde : {Absent} \cup {Given(x) : x \in CallerSerdes}]
NoArgs ==
    [accept |-> Absent, content_type |-> Absent,
     input_serde |-> Absent, output_serde |-> Absent]

\* a call on the framework: what was called, on which service, with which
\* arguments, and what came of it (value is what it returns if it returns)
FrameworkCall(fn, target, pos, kw, outcome, value) ==
    [fn |-> fn, target |-> target, pos |-> pos, kw |-> kw, outcome |-> outcome,
     returned |-> IF outcome = "return" THEN value ELSE NoValue]

\* "return f(...)": the value of the call, or its exception, is the method's
Propagate(call) == IF call.outcome = "raise" THEN Raised ELSE call.returned

\* variant of ServiceKwargs: the two retention fields change places
ServiceKwargs_swapped(self) ==
    [description |-> self.description,
     metadata |-> self.metadata,
     inactivity_timeout |-> self.inactivity_timeout,
     abort_timeout |-> self.abort_timeout,
     journal_retention |-> self.idempotency_retention,
     idempotency_retention |-> self.journal_retention,
     ingress_private |-> self.ingress_private,
     invocation_retry_policy |-> self.invocation_retry_policy]

\* variant of ServiceKwargs: only the fields that are set are written
ServiceKwargs_skip_none(self) ==
    [f \in {g \in {"description", "metadata", "inactivity_timeout", "abort_timeout",
                   "journal_retention", "idempotency_retention", "ingress_private",
                   "invocation_retry_policy"} : self[g] # None} |-> self[f]]

\* the keyword arguments new_service writes in its call of restate.Service
ServiceKwargs(self) ==
    [description |-> self.description,
     metadata |-> self.metadata,
     inactivity_timeout |-> self.inactivity_timeout,
     abort_timeout |-> self.abort_timeout,
     journal_retention |-> self.journal_retention,
     idempotency_retention |-> self.idempotency_retention,
     ingress_private |-> self.ingress_private,
     invocation_retry_policy |-> self.invocation_retry_policy]

\* variant of new_service: a raising constructor is called a second time
new_service_retry(self, outcome, newid) ==
    LET first == FrameworkCall("restate.Service", 0, <<self.name>>, ServiceKwargs(self),
                               outcome, ServiceObject(newid))
        again == FrameworkCall("restate.Service", 0, <<self.name>>, ServiceKwargs(self),
                               "return", ServiceObject(newid))
    IN  IF outcome = "raise"
        THEN [calls |-> <<first, again>>, result |-> Propagate(again), self |-> self]
        ELSE [calls |-> <<first>>, result |-> Propagate(first), self |-> self]

\* ServiceOptions.new_service: one call of the restate.Service constructor,
\* whose value is returned and whose exception propagates. newid is the
\* identity of the object the constructor builds when it returns.
new_service(self, outcome, newid) ==
    LET call == FrameworkCall("restate.Service", 0, <<self.name>>, ServiceKwargs(self),
                              outcome, ServiceObject(newid))
    IN  [calls |-> <<call>>, result |-> Propagate(call), self |-> self]

\* variant of HandlerKwargs: accept and content_type change places
HandlerKwargs_swapped(self, accept, content_type, input_serde, output_serde) ==
    [name |-> self.name,
     accept |-> content_type,
     content_type |-> accept,
     input_serde |-> input_serde,
     output_serde |-> output_serde,
     metadata |-> self.metadata,
     inactivity_timeout |-> self.inactivity_timeout,
     abort_timeout |-> self.abort_timeout,
     journal_retention |-> self.journal_retention,
     idempotency_retention |-> self.idempotency_retention,
     ingress_private |-> self.ingress_private,
     invocation_retry_policy |-> self.invocation_retry_policy]

\* variant of HandlerKwargs: journal_retention is capped by idempotency_retention
HandlerKwargs_capped(self, accept, content_type, input_serde, output_serde) ==
    [name |-> self.name,
     accept |-> accept,
     content_type |-> content_type,
     input_serde |-> input_serde,
     output_serde |-> output_serde,
     metadata |-> self.metadata,
     inactivity_timeout |-> self.inactivity_timeout,
     abort_timeout |-> self.abort_timeout,
     journal_retention |->
         IF /\ self.journal_retention # None
            /\ self.idempotency_retention # None
            /\ Seconds(self.journal_retention) > Seconds(self.idempotency_retention)
         THEN self.idempotency_retention
         ELSE self.journal_retention,
     idempotency_retention |-> self.idempotency_retention,
     ingress_private |-> self.ingress_private,
     invocation_retry_policy |-> self.invocation_retry_policy]

\* the keyword arguments handler writes in its call of service.handler
HandlerKwargs(self, accept, content_type, input_serde, output_serde) ==
    [name |-> self.name,
     accept |-> accept,
     content_type |-> content_type,
     input_serde |-> input_serde,
     output_serde |-> output_serde,
     metadata |-> self.metadata,
     inactivity_timeout |-> self.inactivity_timeout,
     abort_timeout |-> self.abort_timeout,
     journal_retention |-> self.journal_retention,
     idempotency_retention |-> self.idempotency_retention,
     ingress_private |-> self.ingress_private,
     invocation_retry_policy |-> self.invocation_retry_policy]

\* variant of handler: the call goes to the first service ever constructed
handler_first_service(self, service, args, outcome) ==
    LET call == FrameworkCall("Service.handler", 1, <<>>,
                              HandlerKwargs(self,
                                            Bind(args.accept, DefaultAccept),
                                            Bind(args.content_type, DefaultContentType),
                                            Bind(args.input_serde, DefaultInputSerde),
                                            Bind(args.output_serde, DefaultOutputSerde)),
                              outcome, Decorator(1))
    IN  [calls |-> <<call>>, result |-> Propagate(call), self |-> self]

\* variant of handler: one DefaultSerde instance is the default of both serdes
handler_shared_serde(self, service, args, outcome) ==
    LET call == FrameworkCall("Service.handler", service, <<>>,
                              HandlerKwargs(self,
                                            Bind(args.accept, DefaultAccept),
                                            Bind(args.content_type, DefaultContentType),
                                            Bind(args.input_serde, DefaultInputSerde),
                                            Bind(args.output_serde, DefaultInputSerde)),
                              outcome, Decorator(service))
    IN  [calls |-> <<call>>, result |-> Propagate(call), self |-> self]

\* variant of handler: the name is cleared once it has been used
handler_mutating(self, service, args, outcome) ==
    LET call == FrameworkCall("Service.handler", service, <<>>,
                              HandlerKwargs(self,
                                            Bind(args.accept, DefaultAccept),
                                            Bind(args.content_type, DefaultContentType),
                                            Bind(args.input_serde, DefaultInputSerde),
                                            Bind(args.output_serde, DefaultOutputSerde)),
                              outcome, Decorator(service))
    IN  [calls |-> <<call>>, result |-> Propagate(call),
         self |-> [self EXCEPT !.name = None]]

\* ServiceHandlerOptions.handler: one call of service.handler, whose value
\* (the decorator) is returned and whose exception propagates
handler(self, service, args, outcome) ==
    LET call == FrameworkCall("Service.handler", service, <<>>,
                              HandlerKwargs(self,
                                            Bind(args.accept, DefaultAccept),
                                            Bind(args.content_type, DefaultContentType),
                                            Bind(args.input_serde, DefaultInputSerde),
                                            Bind(args.output_serde, DefaultOutputSerde)),
                              outcome, Decorator(service))
    IN  [calls |-> <<call>>, result |-> Propagate(call), self |-> self]

\* ------------------------------------------------------------ BaseSettings
\* variant of DefaultIdentityKeys: one list, made once, is every default
DefaultIdentityKeys_shared(h) ==
    IF Len(h) = 0 THEN [ref |-> 1, heap |-> <<<<>>>>] ELSE [ref |-> 1, heap |-> h]

\* identity_keys: list[str] = Field(default_factory=list): the factory is
\* called once per construction and its list is allocated on the heap
DefaultIdentityKeys(h) == [ref |-> Len(h) + 1, heap |-> Append(h, <<>>)]
\* a list passed by the caller is validated into a list of the instance's own
ValidatedIdentityKeys(h, keys) == [ref |-> Len(h) + 1, heap |-> Append(h, keys)]
\* lists a caller passes as identity_keys
CallerKeyLists == {<<>>} \cup {<<k>> : k \in IdentityKeys}

\* ------------------------------------------------------------------ state
VARIABLES
    options,    \* the options object in scope, or NoObject
    ctor,       \* the latest constructor call of an options class
    lastCall,   \* the latest new_service()/handler() call on the object in scope
    nservices,  \* restate.Service objects constructed so far (ids 1..nservices)
    settings,   \* the BaseSettings instances, in construction order
    heap        \* the list objects: heap[ref] is the content of list ref

vars == <<options, ctor, lastCall, nservices, settings, heap>>

NoObject == [cls |-> "none"]
NoCtor == [cls |-> "none", given |-> {}, outcome |-> "none"]
NoCall == [method |-> "none", self |-> NoObject, service |-> 0, args |-> NoArgs,
           calls |-> <<>>, result |-> NoValue]

Init ==
    /\ options = NoObject
    /\ ctor = NoCtor
    /\ lastCall = NoCall
    /\ nservices = 0
    /\ settings = <<>>
    /\ heap = <<>>

\* o = ServiceOptions(**kw) while no object is in scope; a validation error
\* leaves no object
ConstructServiceOptions ==
    /\ options = NoObject
    /\ \E kw \in ServiceOptionsKwargs :
        /\ IF ServiceOptionsValid(kw)
           THEN /\ options' = ServiceOptions(kw)
                /\ ctor' = [cls |-> "ServiceOptions", given |-> GivenFields(kw),
                            outcome |-> "ok"]
           ELSE /\ options' = NoObject
                /\ ctor' = [cls |-> "ServiceOptions", given |-> GivenFields(kw),
                            outcome |-> "ValidationError"]
        /\ lastCall' = NoCall
        /\ UNCHANGED <<nservices, settings, heap>>

\* o = ServiceHandlerOptions(**kw): every field has a default
ConstructServiceHandlerOptions ==
    /\ options = NoObject
    /\ \E kw \in ServiceHandlerOptionsKwargs :
        /\ options' = ServiceHandlerOptions(kw)
        /\ ctor' = [cls |-> "ServiceHandlerOptions", given |-> GivenFields(kw),
                    outcome |-> "ok"]
        /\ lastCall' = NoCall
        /\ UNCHANGED <<nservices, settings, heap>>

\* o.new_service(), once the caller is done with the previous call's result
NewService ==
    /\ options.cls = "ServiceOptions"
    /\ lastCall = NoCall
    /\ nservices < MaxServices
    /\ \E outcome \in Outcomes :
        LET r == new_service(options, outcome, nservices + 1)
        IN  /\ lastCall' = [method |-> "new_service", self |-> options, service |-> 0,
                            args |-> NoArgs, calls |-> r.calls, result |-> r.result]
            /\ options' = r.self
            /\ nservices' = nservices +
                   Cardinality({i \in 1..Len(r.calls) : r.calls[i].outcome = "return"})
    /\ UNCHANGED <<ctor, settings, heap>>

\* o.handler(service, **args) for a service constructed earlier
Handler ==
    /\ options.cls = "ServiceHandlerOptions"
    /\ lastCall = NoCall
    /\ \E service \in 1..nservices, args \in HandlerCallArgs, outcome \in Outcomes :
        LET r == handler(options, service, args, outcome)
        IN  /\ lastCall' = [method |-> "handler", self |-> options, service |-> service,
                            args |-> args, calls |-> r.calls, result |-> r.result]
            /\ options' = r.self
    /\ UNCHANGED <<ctor, nservices, settings, heap>>

\* del o: the object in scope is released; the services it built stay
Release ==
    /\ options # NoObject
    /\ options' = NoObject
    /\ ctor' = NoCtor
    /\ lastCall' = NoCall
    /\ UNCHANGED <<nservices, settings, heap>>

\* the caller is done with the value or the exception of the latest call;
\* the object stays in scope for further calls
DropResult ==
    /\ lastCall # NoCall
    /\ lastCall' = NoCall
    /\ UNCHANGED <<options, ctor, nservices, settings, heap>>

Next ==
    \/ ConstructServiceOptions
    \/ ConstructServiceHandlerOptions
    \/ NewService
    \/ Handler
    \/ DropResult
    \/ Release

Spec == Init /\ [][Next]_vars

\* BaseSettings(): identity_keys is not given
ConstructBaseSettings ==
    /\ Len(settings) < MaxInstances
    /\ LET a == DefaultIdentityKeys(heap)
       IN  /\ heap' = a.heap
           /\ settings' = Append(settings, [identity_keys |-> a.ref, defaulted |-> TRUE])
    /\ UNCHANGED <<options, ctor, lastCall, nservices>>

\* BaseSettings(identity_keys=keys)
ConstructBaseSettingsWith ==
    /\ Len(settings) < MaxInstances
    /\ \E keys \in CallerKeyLists :
        LET a == ValidatedIdentityKeys(heap, keys)
        IN  /\ heap' = a.heap
            /\ settings' = Append(settings, [identity_keys |-> a.ref, defaulted |-> FALSE])
    /\ UNCHANGED <<options, ctor, lastCall, nservices>>

\* settings[i].identity_keys.append(k), done by the owner of the instance
AppendIdentityKey ==
    /\ \E i \in 1..Len(settings), k \in IdentityKeys :
        LET ref == settings[i].identity_keys
        IN  /\ Len(heap[ref]) < MaxKeys
            /\ heap' = [heap EXCEPT ![ref] = Append(@, k)]
    /\ UNCHANGED <<options, ctor, lastCall, nservices, settings>>

NextSettings ==
    \/ ConstructBaseSettings
    \/ ConstructBaseSettingsWith
    \/ AppendIdentityKey

SpecSettings == Init /\ [][NextSettings]_vars

\* ----------------------------------------------------------------- claims
IsNewService == lastCall.method = "new_service"
IsHandler == lastCall.method = "handler"
ServiceKwNames == {"description"} \cup BaseServiceOptions
HandlerOptionKwNames == {"name"} \cup BaseServiceOptions

\* C1: new_service() calls restate.Service with self.name as the one
\* positional argument and with exactly the eight keywords description,
\* metadata, inactivity_timeout, abort_timeout, journal_retention,
\* idempotency_retention, ingress_private, invocation_retry_policy, each
\* equal to the field of the same name.
C1_NewServicePassesEveryField ==
    IsNewService =>
        /\ Len(lastCall.calls) >= 1
        /\ \A i \in 1..Len(lastCall.calls) :
            LET call == lastCall.calls[i]
            IN  /\ call.fn = "restate.Service"
                /\ call.pos = <<lastCall.self.name>>
                /\ DOMAIN call.kw = ServiceKwNames
                /\ \A f \in ServiceKwNames : call.kw[f] = lastCall.self[f]

C1_Witness ==
    /\ IsNewService
    /\ lastCall.self.journal_retention = Some(30)
    /\ lastCall.self.idempotency_retention = Some(0)
    /\ lastCall.calls[1].kw.journal_retention = Some(30)

\* C2: handler(service, ...) calls service.handler with exactly twelve
\* keywords: name and the seven base options equal to the fields of the same
\* name, and accept, content_type, input_serde, output_serde equal to what the
\* caller passed for the parameter of the same name.
C2_HandlerPassesEveryArgument ==
    IsHandler =>
        /\ Len(lastCall.calls) >= 1
        /\ \A i \in 1..Len(lastCall.calls) :
            LET call == lastCall.calls[i]
            IN  /\ call.fn = "Service.handler"
                /\ call.pos = <<>>
                /\ DOMAIN call.kw = HandlerOptionKwNames \cup DOMAIN lastCall.args
                /\ \A f \in HandlerOptionKwNames : call.kw[f] = lastCall.self[f]
                /\ \A f \in DOMAIN lastCall.args :
                       lastCall.args[f] # Absent => call.kw[f] = lastCall.args[f][1]

C2_Witness ==
    /\ IsHandler
    /\ lastCall.args.accept = Given("text/plain")
    /\ lastCall.args.content_type = Absent
    /\ lastCall.args.input_serde # Absent
    /\ lastCall.self.name = Some("greet")
    /\ lastCall.self.ingress_private = Some(FALSE)
    /\ lastCall.calls[1].kw.accept = "text/plain"

\* C3: one handler() call makes exactly one framework call, the handler
\* method of the service it was given, and returns what that call returned;
\* one new_service() call makes exactly one framework call, the
\* restate.Service constructor, and returns the service it constructed. No
\* other service is the target of any call.
C3_OneCallOnTheGivenService ==
    /\ IsHandler =>
        /\ Len(lastCall.calls) = 1
        /\ lastCall.calls[1].fn = "Service.handler"
        /\ lastCall.calls[1].target = lastCall.service
        /\ lastCall.calls[1].outcome = "return" =>
               /\ lastCall.result = lastCall.calls[1].returned
               /\ lastCall.result = Decorator(lastCall.service)
    /\ IsNewService =>
        /\ Len(lastCall.calls) = 1
        /\ lastCall.calls[1].fn = "restate.Service"
        /\ lastCall.calls[1].target = 0
        /\ lastCall.calls[1].outcome = "return" =>
               /\ lastCall.result = lastCall.calls[1].returned
               /\ lastCall.result = ServiceObject(nservices)

C3_Witness ==
    /\ IsHandler
    /\ nservices = 2
    /\ lastCall.service = 2
    /\ lastCall.result = Decorator(2)

\* C4: both methods forward inactivity_timeout, abort_timeout,
\* journal_retention and idempotency_retention as they are, whatever their
\* order: journal_retention above idempotency_retention is not capped, and
\* abort_timeout below inactivity_timeout is not adjusted.
C4_TimersForwardedUninterpreted ==
    lastCall.method # "none" =>
        \A i \in 1..Len(lastCall.calls) :
            \A f \in TimedeltaFields : lastCall.calls[i].kw[f] = lastCall.self[f]

C4_Witness ==
    /\ IsHandler
    /\ lastCall.self.journal_retention # None
    /\ lastCall.self.idempotency_retention # None
    /\ Seconds(lastCall.self.journal_retention)
           > Seconds(lastCall.self.idempotency_retention)
    /\ lastCall.calls[1].kw.journal_retention = Some(30)

\* C5: ServiceOptions(...) without a name is a validation error and leaves
\* no object, so the service name new_service passes is never None;
\* ServiceHandlerOptions(...) without a name succeeds with name None, and
\* handler() then passes name=None.
C5_OnlyServiceNameIsMandatory ==
    /\ (ctor.cls = "ServiceOptions" /\ "name" \notin ctor.given) =>
           (ctor.outcome = "ValidationError" /\ options = NoObject)
    /\ (ctor.cls = "ServiceOptions" /\ ctor.outcome = "ok") => options.name # None
    /\ IsNewService =>
           \A i \in 1..Len(lastCall.calls) : lastCall.calls[i].pos # <<None>>
    /\ ctor.cls = "ServiceHandlerOptions" => ctor.outcome = "ok"
    /\ (ctor.cls = "ServiceHandlerOptions" /\ "name" \notin ctor.given) =>
           /\ options.cls = "ServiceHandlerOptions"
           /\ options.name = None
           /\ IsHandler =>
                  \A i \in 1..Len(lastCall.calls) : lastCall.calls[i].kw.name = None

C5_Witness ==
    /\ ctor.cls = "ServiceHandlerOptions"
    /\ "name" \notin ctor.given
    /\ IsHandler
    /\ lastCall.calls[1].kw.name = None

\* C6: when the framework call raises, the method made that one call only,
\* the exception is what the caller gets (no value is returned in its place),
\* and the options object is as it was.
C6_ErrorsPropagateUnhandled ==
    (/\ lastCall.method # "none"
     /\ \E i \in 1..Len(lastCall.calls) : lastCall.calls[i].outcome = "raise") =>
        /\ Len(lastCall.calls) = 1
        /\ lastCall.result = Raised
        /\ options = lastCall.self

C6_Witness ==
    /\ IsNewService
    /\ lastCall.calls[1].outcome = "raise"
    /\ lastCall.result = Raised
    /\ nservices = 0

\* C7: a field the constructor call did not mention is None on the object,
\* and a field that is None is still written in the framework call, as None;
\* ServiceOptions(name=...) alone calls restate.Service with all eight keywords
\* None.
C7_UnsetOptionsForwardedAsNone ==
    /\ ctor.outcome = "ok" =>
           \A f \in (DOMAIN options \ {"cls"}) \ ctor.given : options[f] = None
    /\ IsNewService =>
           \A i \in 1..Len(lastCall.calls) : \A f \in ServiceKwNames :
               /\ f \in DOMAIN lastCall.calls[i].kw
               /\ lastCall.self[f] = None => lastCall.calls[i].kw[f] = None
    /\ IsHandler =>
           \A i \in 1..Len(lastCall.calls) : \A f \in HandlerOptionKwNames :
               /\ f \in DOMAIN lastCall.calls[i].kw
               /\ lastCall.self[f] = None => lastCall.calls[i].kw[f] = None
    /\ (IsNewService /\ ctor.given = {"name"}) =>
           /\ Len(lastCall.calls) >= 1
           /\ \A i \in 1..Len(lastCall.calls) :
               /\ DOMAIN lastCall.calls[i].kw = ServiceKwNames
               /\ \A f \in ServiceKwNames : lastCall.calls[i].kw[f] = None

C7_Witness ==
    /\ IsNewService
    /\ ctor.given = {"name"}
    /\ lastCall.calls[1].kw.description = None
    /\ lastCall.calls[1].kw.invocation_retry_policy = None

\* C8: a handler() call that omits accept or content_type passes
\* "application/json" for it; one that omits input_serde or output_serde
\* passes the DefaultSerde instance made for that parameter when handler was
\* defined: the same one in every call, and not the same for the two
\* parameters. The object's fields have no part in the four arguments.
C8_HandlerCallDefaults ==
    IsHandler =>
        \A i \in 1..Len(lastCall.calls) :
            LET kw == lastCall.calls[i].kw
            IN  /\ lastCall.args.accept = Absent => kw.accept = "application/json"
                /\ lastCall.args.content_type = Absent =>
                       kw.content_type = "application/json"
                /\ lastCall.args.input_serde = Absent =>
                       kw.input_serde = [cls |-> "DefaultSerde", id |-> 1]
                /\ lastCall.args.output_serde = Absent =>
                       kw.output_serde = [cls |-> "DefaultSerde", id |-> 2]
                /\ (lastCall.args.input_serde = Absent
                        /\ lastCall.args.output_serde = Absent) =>
                       kw.input_serde # kw.output_serde

C8_Witness ==
    /\ IsHandler
    /\ lastCall.args = NoArgs
    /\ lastCall.self.name # None
    /\ lastCall.self.metadata # None
    /\ lastCall.calls[1].kw.output_serde.cls = "DefaultSerde"

\* C9: a new_service() or handler() call leaves every field of the options
\* object as it was before the call.
C9_CallsLeaveOptionsUnchanged ==
    [][(lastCall.method = "none" /\ lastCall'.method # "none") =>
           (options' = options /\ options' = lastCall'.self)]_vars

C9_Witness ==
    /\ IsHandler
    /\ nservices = 2
    /\ options = lastCall.self
    /\ options.name # None
    /\ options.abort_timeout = Some(0)

KeysOf(i) == heap[settings[i].identity_keys]

\* C10: a BaseSettings instance constructed without identity_keys starts
\* with an empty list, whatever was appended to other instances before, and
\* a step that changes the list of one such instance changes the list of no
\* other.
C10_IdentityKeysFreshPerInstance ==
    [][/\ \A i \in 1..Len(settings') :
            (i > Len(settings) /\ settings'[i].defaulted) =>
                heap'[settings'[i].identity_keys] = <<>>
       /\ \A i, j \in 1..Len(settings) :
            (/\ i # j
             /\ settings[i].defaulted
             /\ settings[j].defaulted
             /\ heap'[settings'[i].identity_keys] # KeysOf(i)) =>
                heap'[settings'[j].identity_keys] = KeysOf(j)]_vars

C10_Witness ==
    /\ Len(settings) = 2
    /\ settings[1].defaulted
    /\ settings[2].defaulted
    /\ Len(KeysOf(1)) = 2
    /\ KeysOf(2) = <<>>

====
